---- MODULE Spec2Model ----
(***************************************************************************)
(* SolSage: knowledge staking, attribution recording and reward accrual.   *)
(*                                                                         *)
(* The repository holds two implementations of the same four operations:   *)
(*   - the low-level one, programs/solsage/src/lib.rs     (suffix N below), *)
(*   - the framework-assisted one, solpg_lib.rs           (suffix A below). *)
(* Both are modelled; a behaviour deploys one of them (impl) and applies    *)
(* every invocation to it.                                                 *)
(*                                                                         *)
(* A ledger maps an address to an account: no account, a freshly created   *)
(* zero-filled buffer, or a buffer holding a serialized record.  Strings   *)
(* are represented by their byte length, 32-byte hashes by small integers, *)
(* and the bump seed is left out.                                          *)
(***************************************************************************)
EXTENDS Integers, FiniteSets, Sequences, TLC

\* ------------------------------------------------------------------ bounds
\* RecordAttribution invocations are submitted while fewer than this many
\* attribution records exist
MaxAttributions == 2

\* wallets, content hashes and query hashes in play
Keys == {1, 2}
Hashes == {1}
Queries == {1, 2}
\* clock readings: entries are staked at Times, attributions recorded later
Times == {1}
LaterTimes == {2}

\* title.len() / category.len() values offered to StakeKnowledge
TitleLens == {7, 100, 101}
CategoryLens == {50, 51}
\* relevance_score values offered to RecordAttribution (u8)
Scores == {0, 50, 100, 101}

\* ------------------------------------------------------- program constants
MaxTitleLen == 100
MaxCategoryLen == 50
MaxRelevanceScore == 100
RewardPerAttribution == 1000000
RewardDivisor == 10
ProtocolLEN == 1 + 32 + 8 + 8 + 8 + 1
KnowledgeEntryLEN == 1 + 32 + 32 + 4 + 100 + 4 + 50 + 8 + 8 + 8 + 1 + 1
AttributionLEN == 1 + 32 + 32 + 1 + 8 + 1 + 1
\* space = 8 (discriminator) + INIT_SPACE
AnchorProtocolSpace == 8 + 32 + 8 + 8 + 8 + 1
AnchorKnowledgeSpace == 8 + 32 + 32 + (4 + 100) + (4 + 50) + 8 + 8 + 8 + 1 + 1
AnchorAttributionSpace == 8 + 32 + 32 + 1 + 8 + 1 + 1

\* ---------------------------------------------------------------- addresses
\* An address is a tuple of integers.  Wallets are <<0, k>>; a derived
\* address is its record-type tag followed by its seeds, so that distinct
\* seed lists give distinct addresses.
Wallet(k) == <<0, k>>
Wallets == {Wallet(k) : k \in Keys}

FindProtocolAddress == <<1>>
FindKnowledgeAddress(stakerKey, content_hash) == <<2, content_hash>> \o stakerKey
FindAttributionAddress(query_hash, knowledgeKey) == <<3, query_hash>> \o knowledgeKey

ProtocolPda == FindProtocolAddress
KnowledgePdas == {FindKnowledgeAddress(w, h) : w \in Wallets, h \in Hashes}
AttributionPdas == {FindAttributionAddress(q, k) : q \in Queries, k \in KnowledgePdas}

\* An address that is not derived from seeds: its key pair is held by a
\* client, who can have the system program allocate an account there and
\* assign it to this program.
ForeignAccount == <<4>>

\* accounts a caller may put in each position of an invocation
RegistryCandidates == {ProtocolPda, FindKnowledgeAddress(Wallet(1), 1), ForeignAccount}
KnowledgeCandidates == KnowledgePdas \cup {ProtocolPda, ForeignAccount}
\* in the attribution position: the address derived for the supplied entry
\* and any query, the right one among them
AttributionCandidates(knowledgeKey) ==
    {FindAttributionAddress(q, knowledgeKey) : q \in Queries}

\* every address an invocation can name
Addresses ==
    {ProtocolPda, ForeignAccount} \cup KnowledgePdas \cup AttributionPdas
        \cup AttributionCandidates(ProtocolPda)
        \cup AttributionCandidates(ForeignAccount)

\* ----------------------------------------------------------------- accounts
NoAccount == [kind |-> "none", space |-> 0]
ZeroAccount(n) == [kind |-> "zero", space |-> n]

EmptyLedger == [a \in Addresses |-> NoAccount]

AccountAt(led, a) == IF a \in DOMAIN led THEN led[a] ELSE NoAccount

\* outcome of a processor: result, ledger as the processor left it (partial
\* writes included), the records it read / created / wrote, amount logged
Outcome(res, led, reads, created, written, amount) ==
    [res |-> res, led |-> led, reads |-> reads, created |-> created,
     written |-> written, amount |-> amount]


\* ------------------------------------------------------- host collaborators
\* system_instruction::create_account: fails when the address is already in
\* use, otherwise allocates a zero-filled buffer of `space` bytes.
\* mutant: an address in use is allocated again
CreateAccount_Overwrite(led, addr, space) ==
    [res |-> "Ok", led |-> [led EXCEPT ![addr] = ZeroAccount(space)]]

CreateAccount(led, addr, space) ==
    IF AccountAt(led, addr).kind # "none"
    THEN [res |-> "AccountAlreadyInUse", led |-> led]
    ELSE [res |-> "Ok", led |-> [led EXCEPT ![addr] = ZeroAccount(space)]]

\* ======================= low-level implementation (programs/solsage/src/lib.rs)

\* number of bytes borsh writes for a KnowledgeEntry: strings are a u32
\* length prefix followed by the bytes actually present
KnowledgeSerLen(title, category) ==
    1 + 32 + 32 + (4 + title) + (4 + category) + 8 + 8 + 8 + 1 + 1

ProtocolRecord(authority, nEntries, nAttributions, rate, init) ==
    [kind |-> "protocol", space |-> ProtocolLEN, is_initialized |-> init,
     authority |-> authority, total_knowledge_entries |-> nEntries,
     total_attributions |-> nAttributions, reward_per_attribution |-> rate]

\* <T>::try_from_slice(&account.data.borrow()): deserializes from the start
\* of the buffer and fails unless every byte of the buffer was consumed.
ProtocolTryFromSlice(acct) ==
    IF acct.kind = "protocol" /\ acct.space = ProtocolLEN
    THEN [ok |-> TRUE, rec |-> acct]
    ELSE IF acct.kind = "zero" /\ acct.space = ProtocolLEN
    THEN [ok |-> TRUE, rec |-> ProtocolRecord(<<0, 0>>, 0, 0, 0, FALSE)]
    ELSE [ok |-> FALSE, rec |-> acct]

KnowledgeRecord(staker, content_hash, title, category, created_at, init) ==
    [kind |-> "knowledge", space |-> KnowledgeEntryLEN, is_initialized |-> init,
     staker |-> staker, content_hash |-> content_hash, title |-> title,
     category |-> category, created_at |-> created_at,
     total_attributions |-> 0, pending_rewards |-> 0, is_active |-> init]

KnowledgeTryFromSlice(acct) ==
    IF acct.kind = "knowledge"
       /\ KnowledgeSerLen(acct.title, acct.category) = acct.space
    THEN [ok |-> TRUE, rec |-> acct]
    ELSE IF acct.kind = "zero" /\ acct.space = KnowledgeSerLen(0, 0)
    THEN [ok |-> TRUE, rec |-> KnowledgeRecord(<<0, 0>>, 0, 0, 0, 0, FALSE)]
    ELSE [ok |-> FALSE, rec |-> acct]

\* <T>::serialize(&mut &mut account.data.borrow_mut()[..]): writes the record
\* at the start of the buffer, fails when the buffer is too short.
SerializeInto(led, addr, rec, len) ==
    IF len > AccountAt(led, addr).space
    THEN [res |-> "BorshIoError", led |-> led]
    ELSE [res |-> "Ok",
          led |-> [led EXCEPT ![addr] = [rec EXCEPT !.space = led[addr].space]]]

Reward(reward_per_attribution, relevance_score) ==
    (reward_per_attribution * relevance_score) \div RewardDivisor

\* title.len() > 100, category.len() > 50, relevance_score > 100
\* mutant: the title bound is off by one
TitleTooLong_OffByOne(title) == title > MaxTitleLen + 1

TitleTooLong(title) == title > MaxTitleLen
CategoryTooLong(category) == category > MaxCategoryLen
InvalidRelevanceScore(relevance_score) == relevance_score > MaxRelevanceScore

\* derived address != *account.key
\* mutant: the supplied address is not compared with the derived one
PdaMismatch_Unchecked(pda, key) == FALSE

PdaMismatch(pda, key) == pda # key

\* protocol.total_knowledge_entries += 1 / protocol.total_attributions += 1
IncrementKnowledgeEntries(protocol) ==
    [protocol EXCEPT !.total_knowledge_entries = @ + 1]
IncrementAttributions(protocol) ==
    [protocol EXCEPT !.total_attributions = @ + 1]

\* knowledge.total_attributions += 1; knowledge.pending_rewards += reward
\* mutant: recording an attribution deactivates the entry
AccrueReward_Deactivates(knowledge, reward) ==
    [knowledge EXCEPT !.total_attributions = @ + 1,
                      !.pending_rewards = @ + reward,
                      !.is_active = FALSE]

AccrueReward(knowledge, reward) ==
    [knowledge EXCEPT !.total_attributions = @ + 1,
                      !.pending_rewards = @ + reward]

\* knowledge.pending_rewards = 0
\* mutant: the balance is not reset
ClearPending_Kept(knowledge) == knowledge

\* mutant: the attribution count is reset together with the balance
ClearPending_ResetsCount(knowledge) ==
    [knowledge EXCEPT !.pending_rewards = 0, !.total_attributions = 0]

ClearPending(knowledge) == [knowledge EXCEPT !.pending_rewards = 0]

process_initialize(led, inv) ==
    IF ~inv.signed
    THEN Outcome("MissingRequiredSignature", led, {}, {}, {}, 0)
    ELSE IF PdaMismatch(FindProtocolAddress, inv.protocol_account)
    THEN Outcome("InvalidPda", led, {}, {}, {}, 0)
    ELSE LET c == CreateAccount(led, inv.protocol_account, ProtocolLEN) IN
         IF c.res # "Ok"
         THEN Outcome(c.res, led, {}, {}, {}, 0)
         ELSE LET protocol == ProtocolRecord(inv.signer, 0, 0, RewardPerAttribution, TRUE)
                  w == SerializeInto(c.led, inv.protocol_account, protocol, ProtocolLEN)
              IN  Outcome(w.res, w.led, {}, {inv.protocol_account},
                          {inv.protocol_account}, 0)

process_stake_knowledge(led, inv) ==
    IF ~inv.signed
    THEN Outcome("MissingRequiredSignature", led, {}, {}, {}, 0)
    ELSE IF TitleTooLong(inv.title)
    THEN Outcome("TitleTooLong", led, {}, {}, {}, 0)
    ELSE IF CategoryTooLong(inv.category)
    THEN Outcome("CategoryTooLong", led, {}, {}, {}, 0)
    ELSE IF PdaMismatch(FindKnowledgeAddress(inv.signer, inv.content_hash),
                        inv.knowledge_account)
    THEN Outcome("InvalidPda", led, {}, {}, {}, 0)
    ELSE LET c == CreateAccount(led, inv.knowledge_account, KnowledgeEntryLEN) IN
         IF c.res # "Ok"
         THEN Outcome(c.res, led, {}, {}, {}, 0)
         ELSE
         LET knowledge == KnowledgeRecord(inv.signer, inv.content_hash, inv.title,
                                          inv.category, inv.now, TRUE)
             w1 == SerializeInto(c.led, inv.knowledge_account, knowledge,
                                 KnowledgeSerLen(inv.title, inv.category))
             created == {inv.knowledge_account}
         IN  IF w1.res # "Ok"
             THEN Outcome(w1.res, w1.led, {}, created, {}, 0)
             ELSE
             LET p == ProtocolTryFromSlice(AccountAt(w1.led, inv.protocol_account)) IN
             IF ~p.ok
             THEN Outcome("BorshIoError", w1.led, {inv.protocol_account}, created,
                          created, 0)
             ELSE
             LET protocol == IncrementKnowledgeEntries(p.rec)
                 w2 == SerializeInto(w1.led, inv.protocol_account, protocol, ProtocolLEN)
             IN  Outcome(w2.res, w2.led, {inv.protocol_account}, created,
                         created \cup {inv.protocol_account}, 0)


AttributionRecord(knowledge_entry, query_hash, relevance_score, timestamp) ==
    [kind |-> "attribution", space |-> AttributionLEN, is_initialized |-> TRUE,
     knowledge_entry |-> knowledge_entry, query_hash |-> query_hash,
     relevance_score |-> relevance_score, timestamp |-> timestamp,
     reward_claimed |-> FALSE]

process_record_attribution(led, inv) ==
    IF ~inv.signed
    THEN Outcome("MissingRequiredSignature", led, {}, {}, {}, 0)
    ELSE IF InvalidRelevanceScore(inv.relevance_score)
    THEN Outcome("InvalidRelevanceScore", led, {}, {}, {}, 0)
    ELSE IF PdaMismatch(FindAttributionAddress(inv.query_hash, inv.knowledge_account),
                        inv.attribution_account)
    THEN Outcome("InvalidPda", led, {}, {}, {}, 0)
    ELSE LET c == CreateAccount(led, inv.attribution_account, AttributionLEN) IN
         IF c.res # "Ok"
         THEN Outcome(c.res, led, {}, {}, {}, 0)
         ELSE
         LET created == {inv.attribution_account}
             k == KnowledgeTryFromSlice(AccountAt(c.led, inv.knowledge_account))
         IN
         IF ~k.ok
         THEN Outcome("BorshIoError", c.led, {inv.knowledge_account}, created, {}, 0)
         ELSE
         LET p == ProtocolTryFromSlice(AccountAt(c.led, inv.protocol_account))
             rd == {inv.knowledge_account, inv.protocol_account}
         IN
         IF ~p.ok
         THEN Outcome("BorshIoError", c.led, rd, created, {}, 0)
         ELSE
         LET reward == Reward(p.rec.reward_per_attribution, inv.relevance_score)
             knowledge == AccrueReward(k.rec, reward)
             w1 == SerializeInto(c.led, inv.knowledge_account, knowledge,
                                 KnowledgeSerLen(knowledge.title, knowledge.category))
         IN
         IF w1.res # "Ok"
         THEN Outcome(w1.res, w1.led, rd, created, {}, reward)
         ELSE
         LET attribution == AttributionRecord(inv.knowledge_account, inv.query_hash,
                                              inv.relevance_score, inv.now)
             w2 == SerializeInto(w1.led, inv.attribution_account, attribution,
                                 AttributionLEN)
             wr2 == {inv.knowledge_account, inv.attribution_account}
         IN
         IF w2.res # "Ok"
         THEN Outcome(w2.res, w2.led, rd, created, {inv.knowledge_account}, reward)
         ELSE
         \* the registry is loaded again after the two writes
         LET p2 == ProtocolTryFromSlice(AccountAt(w2.led, inv.protocol_account)) IN
         IF ~p2.ok
         THEN Outcome("BorshIoError", w2.led, rd, created, wr2, reward)
         ELSE
         LET protocol == IncrementAttributions(p2.rec)
             w3 == SerializeInto(w2.led, inv.protocol_account, protocol, ProtocolLEN)
         IN  Outcome(w3.res, w3.led, rd, created,
                     wr2 \cup {inv.protocol_account}, reward)

process_claim_rewards(led, inv) ==
    IF ~inv.signed
    THEN Outcome("MissingRequiredSignature", led, {}, {}, {}, 0)
    ELSE
    LET k == KnowledgeTryFromSlice(AccountAt(led, inv.knowledge_account))
        rd == {inv.knowledge_account}
    IN
    IF ~k.ok
    THEN Outcome("BorshIoError", led, rd, {}, {}, 0)
    ELSE IF k.rec.staker # inv.signer
    THEN Outcome("NotKnowledgeOwner", led, rd, {}, {}, 0)
    ELSE IF k.rec.pending_rewards = 0
    THEN Outcome("NoRewardsToClaim", led, rd, {}, {}, 0)
    ELSE
    LET reward_amount == k.rec.pending_rewards
        knowledge == ClearPending(k.rec)
        w == SerializeInto(led, inv.knowledge_account, knowledge,
                           KnowledgeSerLen(knowledge.title, knowledge.category))
    IN  Outcome(w.res, w.led, rd, {}, {inv.knowledge_account}, reward_amount)

\* The host applies an invocation atomically: the processor's writes are
\* kept when it returns Ok and discarded when it returns an error.
\* mutant: the writes made before the error are kept
AtomicCommit_KeepsPartial(led, out) == out.led

AtomicCommit(led, out) == IF out.res = "Ok" THEN out.led ELSE led


\* ========================== framework-assisted implementation (solpg_lib.rs)
\* The framework validates the accounts struct before the handler runs:
\* first every field that is not `init` is loaded in declaration order
\* (Account<T>: owned by the program and carrying T's discriminator;
\* Signer: has signed), then each `init` field has its seeds checked and is
\* created, then the remaining seeds constraints are checked.  The handler
\* works on the loaded records, which are written back when it returns Ok.

\* Account<'info, T>::try_from
AccountLoad(led, addr, kind) ==
    LET acct == AccountAt(led, addr) IN
    IF acct.kind = "none" THEN [res |-> "AccountNotInitialized", rec |-> acct]
    ELSE IF acct.kind # kind THEN [res |-> "AccountDiscriminatorMismatch", rec |-> acct]
    ELSE [res |-> "Ok", rec |-> acct]

\* #[account(init, payer = .., space = .., seeds = .., bump)]
AccountInit(led, addr, derived, space) ==
    IF addr # derived THEN [res |-> "ConstraintSeeds", led |-> led]
    ELSE CreateAccount(led, addr, space)

\* accounts struct Initialize + handler initialize
initialize(led, inv) ==
    IF ~inv.signed
    THEN Outcome("AccountNotSigner", led, {}, {}, {}, 0)
    ELSE LET c == AccountInit(led, inv.protocol_account, FindProtocolAddress,
                              AnchorProtocolSpace) IN
         IF c.res # "Ok"
         THEN Outcome(c.res, led, {}, {}, {}, 0)
         ELSE
         LET protocol == [kind |-> "protocol", space |-> AnchorProtocolSpace,
                          authority |-> inv.signer, total_knowledge_entries |-> 0,
                          total_attributions |-> 0,
                          reward_per_attribution |-> RewardPerAttribution]
         IN  Outcome("Ok", [c.led EXCEPT ![inv.protocol_account] = protocol], {},
                     {inv.protocol_account}, {inv.protocol_account}, 0)

\* accounts struct StakeKnowledge + handler stake_knowledge
stake_knowledge(led, inv) ==
    LET p == AccountLoad(led, inv.protocol_account, "protocol")
        rd == {inv.protocol_account}
    IN
    IF p.res # "Ok"
    THEN Outcome(p.res, led, rd, {}, {}, 0)
    ELSE IF ~inv.signed
    THEN Outcome("AccountNotSigner", led, rd, {}, {}, 0)
    ELSE
    LET c == AccountInit(led, inv.knowledge_account,
                         FindKnowledgeAddress(inv.signer, inv.content_hash),
                         AnchorKnowledgeSpace)
        created == {inv.knowledge_account}
    IN
    IF c.res # "Ok"
    THEN Outcome(c.res, led, rd, {}, {}, 0)
    ELSE IF inv.protocol_account # FindProtocolAddress
    THEN Outcome("ConstraintSeeds", c.led, rd, created, {}, 0)
    ELSE IF ~(inv.title <= MaxTitleLen)
    THEN Outcome("TitleTooLong", c.led, rd, created, {}, 0)
    ELSE IF ~(inv.category <= MaxCategoryLen)
    THEN Outcome("CategoryTooLong", c.led, rd, created, {}, 0)
    ELSE
    LET knowledge == [kind |-> "knowledge", space |-> AnchorKnowledgeSpace,
                      staker |-> inv.signer, content_hash |-> inv.content_hash,
                      title |-> inv.title, category |-> inv.category,
                      created_at |-> inv.now, total_attributions |-> 0,
                      pending_rewards |-> 0, is_active |-> TRUE]
        protocol == [p.rec EXCEPT !.total_knowledge_entries = @ + 1]
    IN  Outcome("Ok",
                [c.led EXCEPT ![inv.knowledge_account] = knowledge,
                              ![inv.protocol_account] = protocol],
                rd, created, created \cup {inv.protocol_account}, 0)

\* accounts struct RecordAttribution + handler record_attribution
record_attribution(led, inv) ==
    LET p == AccountLoad(led, inv.protocol_account, "protocol")
        k == AccountLoad(led, inv.knowledge_account, "knowledge")
        rd == {inv.protocol_account, inv.knowledge_account}
    IN
    IF p.res # "Ok"
    THEN Outcome(p.res, led, {inv.protocol_account}, {}, {}, 0)
    ELSE IF k.res # "Ok"
    THEN Outcome(k.res, led, rd, {}, {}, 0)
    ELSE IF ~inv.signed
    THEN Outcome("AccountNotSigner", led, rd, {}, {}, 0)
    ELSE
    LET c == AccountInit(led, inv.attribution_account,
                         FindAttributionAddress(inv.query_hash, inv.knowledge_account),
                         AnchorAttributionSpace)
        created == {inv.attribution_account}
    IN
    IF c.res # "Ok"
    THEN Outcome(c.res, led, rd, {}, {}, 0)
    ELSE IF inv.protocol_account # FindProtocolAddress
    THEN Outcome("ConstraintSeeds", c.led, rd, created, {}, 0)
    ELSE IF ~(inv.relevance_score <= MaxRelevanceScore)
    THEN Outcome("InvalidRelevanceScore", c.led, rd, created, {}, 0)
    ELSE
    LET attribution == [kind |-> "attribution", space |-> AnchorAttributionSpace,
                        knowledge_entry |-> inv.knowledge_account,
                        query_hash |-> inv.query_hash,
                        relevance_score |-> inv.relevance_score,
                        timestamp |-> inv.now, reward_claimed |-> FALSE]
        base_reward == p.rec.reward_per_attribution
        reward == Reward(base_reward, inv.relevance_score)
        knowledge == [k.rec EXCEPT !.total_attributions = @ + 1,
                                   !.pending_rewards = @ + reward]
        protocol == [p.rec EXCEPT !.total_attributions = @ + 1]
    IN  Outcome("Ok",
                [c.led EXCEPT ![inv.attribution_account] = attribution,
                              ![inv.knowledge_account] = knowledge,
                              ![inv.protocol_account] = protocol],
                rd, created,
                {inv.attribution_account, inv.knowledge_account, inv.protocol_account},
                reward)

\* accounts struct ClaimRewards + handler claim_rewards
claim_rewards(led, inv) ==
    LET k == AccountLoad(led, inv.knowledge_account, "knowledge")
        rd == {inv.knowledge_account}
    IN
    IF k.res # "Ok"
    THEN Outcome(k.res, led, rd, {}, {}, 0)
    ELSE IF ~inv.signed
    THEN Outcome("AccountNotSigner", led, rd, {}, {}, 0)
    ELSE IF ~(k.rec.pending_rewards > 0)
    THEN Outcome("NoRewardsToClaim", led, rd, {}, {}, 0)
    ELSE IF ~(k.rec.staker = inv.signer)
    THEN Outcome("NotKnowledgeOwner", led, rd, {}, {}, 0)
    ELSE
    LET reward_amount == k.rec.pending_rewards
        knowledge == [k.rec EXCEPT !.pending_rewards = 0]
    IN  Outcome("Ok", [led EXCEPT ![inv.knowledge_account] = knowledge], rd, {},
                {inv.knowledge_account}, reward_amount)


\* ============================================================ state machine
VARIABLES
    impl,       \* the implementation that is deployed: "N" low-level, "A" framework-assisted
    ledger,     \* the accounts
    claimed     \* per entry, sum of the amounts logged by successful claims

vars == <<impl, ledger, claimed>>

\* the invocations a caller can submit
InitializeInvocations ==
    [signer : Wallets, signed : BOOLEAN, protocol_account : RegistryCandidates]

StakeInvocations ==
    [signer : Wallets, signed : BOOLEAN, protocol_account : RegistryCandidates,
     knowledge_account : KnowledgeCandidates, content_hash : Hashes,
     title : TitleLens, category : CategoryLens, now : Times]

AttributionInvocations ==
    UNION {[signer : Wallets, signed : BOOLEAN,
            protocol_account : RegistryCandidates,
            knowledge_account : {k},
            attribution_account : AttributionCandidates(k),
            query_hash : Queries, relevance_score : Scores, now : LaterTimes] :
           k \in KnowledgeCandidates}

ClaimInvocations ==
    [signer : Wallets, signed : BOOLEAN, knowledge_account : KnowledgeCandidates]

\* the processor of implementation i for each operation
InitializeOut(i, led, inv) ==
    IF i = "N" THEN process_initialize(led, inv) ELSE initialize(led, inv)
StakeOut(i, led, inv) ==
    IF i = "N" THEN process_stake_knowledge(led, inv) ELSE stake_knowledge(led, inv)
AttributionOut(i, led, inv) ==
    IF i = "N" THEN process_record_attribution(led, inv)
    ELSE record_attribution(led, inv)
ClaimOut(i, led, inv) ==
    IF i = "N" THEN process_claim_rewards(led, inv) ELSE claim_rewards(led, inv)

Init ==
    /\ impl \in {"N", "A"}
    /\ ledger = EmptyLedger
    /\ claimed = [k \in KnowledgePdas |-> 0]

\* one invocation, applied by the host
Invoke(out) ==
    /\ ledger' = AtomicCommit(ledger, out)
    /\ UNCHANGED <<impl, claimed>>

Initialize ==
    \E inv \in InitializeInvocations : Invoke(InitializeOut(impl, ledger, inv))

StakeKnowledge ==
    \E inv \in StakeInvocations : Invoke(StakeOut(impl, ledger, inv))

AttributionCount(led) ==
    Cardinality({a \in DOMAIN led : led[a].kind = "attribution"})

RecordAttribution ==
    /\ AttributionCount(ledger) < MaxAttributions
    /\ \E inv \in AttributionInvocations : Invoke(AttributionOut(impl, ledger, inv))

\* the amount a successful claim logs is added to the entry's claimed total
Claimed(claimed_, target, out) ==
    IF out.res = "Ok" /\ target \in DOMAIN claimed_
    THEN [claimed_ EXCEPT ![target] = @ + out.amount]
    ELSE claimed_

ClaimRewards ==
    \E inv \in ClaimInvocations :
        LET out == ClaimOut(impl, ledger, inv)
        IN  /\ ledger' = AtomicCommit(ledger, out)
            /\ claimed' = Claimed(claimed, inv.knowledge_account, out)
            /\ UNCHANGED impl

\* sizes a client gives the account it allocates: that of a serialized
\* Protocol and that of a serialized KnowledgeEntry with empty strings
ForeignSpaces == {ProtocolLEN, KnowledgeSerLen(0, 0)}

\* A client has the system program create a zero-filled account owned by this
\* program at an address whose key it holds.  Derived addresses have no key:
\* only the program creates accounts there.
HostCreateAccount ==
    \E space \in ForeignSpaces :
        LET c == CreateAccount(ledger, ForeignAccount, space)
        IN  /\ c.res = "Ok"
            /\ ledger' = c.led
            /\ UNCHANGED <<impl, claimed>>

Next ==
    \/ Initialize
    \/ StakeKnowledge
    \/ RecordAttribution
    \/ ClaimRewards
    \/ HostCreateAccount

Spec == Init /\ [][Next]_vars


\* =================================================================== claims
\* Each claim is stated for the deployed implementation, whichever it is.  A
\* claim about what an invocation does is stated for every invocation a
\* caller can submit in every reachable state.
Impls == {impl}
Ledger(i) == ledger
ClaimedOf(i) == claimed

HasRegistry(led) == led[ProtocolPda].kind = "protocol"
\* knowledge entries: the records StakeKnowledge created, which sit at the
\* derived addresses
EntriesOf(led) == {a \in KnowledgePdas : led[a].kind = "knowledge"}
AttributionsOf(led) == {a \in DOMAIN led : led[a].kind = "attribution"}
AttributionsTo(led, e) == {a \in AttributionsOf(led) : led[a].knowledge_entry = e}

\* the registry's reward_per_attribution: fixed at creation
RegistryRate(led) ==
    IF HasRegistry(led) THEN led[ProtocolPda].reward_per_attribution
    ELSE RewardPerAttribution

\* balance of the record at address k, 0 while it holds no entry
PendingAt(led, k) ==
    IF led[k].kind = "knowledge" THEN led[k].pending_rewards ELSE 0

RECURSIVE SumOver(_, _)
\* sum of f[x] over the finite set S
SumOver(S, f) ==
    IF S = {} THEN 0
    ELSE LET x == CHOOSE y \in S : TRUE IN f[x] + SumOver(S \ {x}, f)

\* C1 (as claimed): in every reachable state the registry's total_knowledge_entries equals
\* the number of knowledge entry records that exist and its
\* total_attributions equals the number of attribution records that exist
\* (and while no registry exists, neither does any other record).
C1_CountersEqualRecords ==
    \A i \in Impls :
        LET led == Ledger(i) IN
        IF HasRegistry(led)
        THEN /\ led[ProtocolPda].total_knowledge_entries = Cardinality(EntriesOf(led))
             /\ led[ProtocolPda].total_attributions = Cardinality(AttributionsOf(led))
        ELSE EntriesOf(led) = {} /\ AttributionsOf(led) = {}

\* C2 (as claimed): an entry on which no claim has succeeded has pending_rewards equal to
\* the sum of floor(reward_per_attribution * r / 10) over the scores r of the
\* attributions recorded against it, and total_attributions equal to their
\* number.
C2_PendingIsSumOfRewards ==
    \A i \in Impls :
        LET led == Ledger(i) IN
        \A e \in EntriesOf(led) :
            ClaimedOf(i)[e] = 0 =>
                LET recs == AttributionsTo(led, e)
                    rate == RegistryRate(led)
                    share == [a \in recs |->
                                 (rate * led[a].relevance_score) \div 10]
                IN  /\ led[e].pending_rewards = SumOver(recs, share)
                    /\ led[e].total_attributions = Cardinality(recs)


\* C3 (as claimed): a signed ClaimRewards whose signer is not the entry's
\* staker returns NotKnowledgeOwner, whatever the entry's pending_rewards,
\* and leaves the ledger unchanged.
C3_NonOwnerAlwaysNotKnowledgeOwner ==
    \A i \in Impls :
        \A inv \in ClaimInvocations :
            LET led == Ledger(i)
                out == ClaimOut(i, led, inv)
            IN  (/\ inv.signed
                 /\ led[inv.knowledge_account].kind = "knowledge"
                 /\ led[inv.knowledge_account].staker # inv.signer)
                => /\ out.res = "NotKnowledgeOwner"
                   /\ AtomicCommit(led, out) = led

\* C4: while an entry for (staker, content_hash) exists, no StakeKnowledge
\* for that pair succeeds or changes the ledger, whatever title, category and
\* accounts it carries; one that is otherwise well-formed fails with the
\* host's address-already-in-use error.
StakeTarget(inv) == FindKnowledgeAddress(inv.signer, inv.content_hash)

StakeWellFormed(inv) ==
    /\ inv.signed
    /\ inv.title <= 100
    /\ inv.category <= 50
    /\ inv.protocol_account = ProtocolPda
    /\ inv.knowledge_account = StakeTarget(inv)

C4_SecondStakeRejected ==
    \A i \in Impls :
        \A inv \in StakeInvocations :
            LET led == Ledger(i)
                out == StakeOut(i, led, inv)
            IN  led[StakeTarget(inv)].kind = "knowledge"
                => /\ out.res # "Ok"
                   /\ AtomicCommit(led, out) = led
                   /\ StakeWellFormed(inv) => out.res = "AccountAlreadyInUse"

C4_Witness ==
    \E inv \in StakeInvocations :
        /\ StakeWellFormed(inv)
        /\ \A i \in Impls :
               /\ Ledger(i)[StakeTarget(inv)].kind = "knowledge"
               /\ Ledger(i)[StakeTarget(inv)].title # inv.title
               /\ Ledger(i)[ProtocolPda].total_knowledge_entries = 1
               /\ StakeOut(i, Ledger(i), inv).res = "AccountAlreadyInUse"

\* C5: while an attribution record for (query_hash, knowledge_entry) exists,
\* no RecordAttribution for that pair succeeds or changes the ledger, whatever
\* score and payer it carries; one that is otherwise well-formed fails with
\* the host's address-already-in-use error.
AttributionTarget(inv) ==
    FindAttributionAddress(inv.query_hash, inv.knowledge_account)

AttributionWellFormed(inv) ==
    /\ inv.signed
    /\ inv.relevance_score <= 100
    /\ inv.protocol_account = ProtocolPda
    /\ inv.attribution_account = AttributionTarget(inv)

C5_RepeatedAttributionRejected ==
    \A i \in Impls :
        \A inv \in AttributionInvocations :
            LET led == Ledger(i)
                out == AttributionOut(i, led, inv)
            IN  AccountAt(led, AttributionTarget(inv)).kind = "attribution"
                => /\ out.res # "Ok"
                   /\ AtomicCommit(led, out) = led
                   /\ AttributionWellFormed(inv) => out.res = "AccountAlreadyInUse"

C5_Witness ==
    \E inv \in AttributionInvocations :
        /\ AttributionWellFormed(inv)
        /\ \A i \in Impls :
               /\ AccountAt(Ledger(i), AttributionTarget(inv)).kind = "attribution"
               /\ Ledger(i)[AttributionTarget(inv)].relevance_score
                      # inv.relevance_score
               /\ AttributionOut(i, Ledger(i), inv).res = "AccountAlreadyInUse"

\* C6: a signed ClaimRewards by the entry's staker on an entry with
\* pending_rewards = p > 0 returns Ok, logs the amount p and leaves
\* pending_rewards = 0; the same claim repeated at once returns
\* NoRewardsToClaim.
C6_ClaimPaysOnce ==
    \A i \in Impls :
        \A inv \in ClaimInvocations :
            LET led == Ledger(i)
                k == inv.knowledge_account
                out == ClaimOut(i, led, inv)
                after == AtomicCommit(led, out)
            IN  (/\ inv.signed
                 /\ led[k].kind = "knowledge"
                 /\ led[k].staker = inv.signer
                 /\ led[k].pending_rewards > 0)
                => /\ out.res = "Ok"
                   /\ out.amount = led[k].pending_rewards
                   /\ after[k].pending_rewards = 0
                   /\ ClaimOut(i, after, inv).res = "NoRewardsToClaim"

\* a state in which a claim has paid 5,000,000 and the balance is back to 0
C6_Witness ==
    \E e \in KnowledgePdas :
        \A i \in Impls :
            /\ Ledger(i)[e].kind = "knowledge"
            /\ ClaimedOf(i)[e] = 5000000
            /\ Ledger(i)[e].pending_rewards = 0
            /\ ClaimOut(i, Ledger(i), [signer |-> Ledger(i)[e].staker,
                                       signed |-> TRUE,
                                       knowledge_account |-> e]).res
                   = "NoRewardsToClaim"


\* C7 (as claimed): a successful RecordAttribution with score r has r <= 100 and adds
\* floor(reward_per_attribution * r / 10) to the entry's pending_rewards: at
\* the rate 1,000,000 that is 0 for r = 0, 5,000,000 for r = 50 and
\* 10,000,000 for r = 100; an invocation that succeeds with a score in
\* [0,100] returns InvalidRelevanceScore with a score above 100.
ScoreProbes == {0, 1, 50, 99, 100, 101, 255}

C7_RewardByScore ==
    \A i \in Impls :
        \A inv \in {x \in AttributionInvocations : x.relevance_score = 0} :
            \A r \in ScoreProbes :
                LET led == Ledger(i)
                    k == inv.knowledge_account
                    out == AttributionOut(i, led, [inv EXCEPT !.relevance_score = r])
                    after == AtomicCommit(led, out)
                    added == PendingAt(after, k) - PendingAt(led, k)
                    rate == RegistryRate(led)
                IN  /\ out.res = "Ok"
                       => /\ r <= 100
                          /\ rate = 1000000
                          /\ added = (rate * r) \div 10
                          /\ r = 0 => added = 0
                          /\ r = 50 => added = 5000000
                          /\ r = 100 => added = 10000000
                    /\ (r > 100 /\ AttributionOut(i, led, inv).res = "Ok")
                       => out.res = "InvalidRelevanceScore"

\* C8: every change of a ledger is the complete effect of one invocation that
\* returned Ok: an invocation that returns an error creates no record and
\* changes no field of any record.
LedgerNext(i) == ledger'

SomeSuccessYields(i, led, led2) ==
    \/ \E inv \in InitializeInvocations :
           LET out == InitializeOut(i, led, inv) IN out.res = "Ok" /\ out.led = led2
    \/ \E inv \in StakeInvocations :
           LET out == StakeOut(i, led, inv) IN out.res = "Ok" /\ out.led = led2
    \/ \E inv \in AttributionInvocations :
           LET out == AttributionOut(i, led, inv) IN out.res = "Ok" /\ out.led = led2
    \/ \E inv \in ClaimInvocations :
           LET out == ClaimOut(i, led, inv) IN out.res = "Ok" /\ out.led = led2
    \/ \E space \in ForeignSpaces :
           LET c == CreateAccount(led, ForeignAccount, space) IN
           c.res = "Ok" /\ c.led = led2

C8_AllOrNothing ==
    [][\A i \in Impls :
           LedgerNext(i) # Ledger(i) => SomeSuccessYields(i, Ledger(i), LedgerNext(i))]_vars

\* a state in which a RecordAttribution creates the attribution account, then
\* fails to load the entry it is given, and nothing of it is kept
C8_Witness ==
    \E inv \in AttributionInvocations :
        LET out == process_record_attribution(ledger, inv) IN
        /\ impl = "N"
        /\ HasRegistry(ledger)
        /\ ledger[inv.knowledge_account].kind = "knowledge"
        /\ out.res = "BorshIoError"
        /\ out.created = {inv.attribution_account}
        /\ out.led # ledger
        /\ AtomicCommit(ledger, out) = ledger

\* C9: a StakeKnowledge whose title is longer than 100 never succeeds and
\* changes nothing; one that succeeds with a title of 100 returns
\* TitleTooLong with the longer title.
C9_LongTitleRejected ==
    \A i \in Impls :
        \A inv \in StakeInvocations :
            LET led == Ledger(i)
                out == StakeOut(i, led, inv)
            IN  inv.title > 100
                => /\ out.res # "Ok"
                   /\ AtomicCommit(led, out) = led
                   /\ StakeOut(i, led, [inv EXCEPT !.title = 100]).res = "Ok"
                      => /\ out.res = "TitleTooLong"
                         /\ led[inv.knowledge_account].kind = "none"
                         /\ AtomicCommit(led, out)[inv.knowledge_account].kind = "none"

C9_Witness ==
    \E inv \in StakeInvocations :
        /\ inv.title = 101
        /\ \A i \in Impls :
               /\ HasRegistry(Ledger(i))
               /\ Ledger(i)[ProtocolPda].total_knowledge_entries = 1
               /\ StakeOut(i, Ledger(i), [inv EXCEPT !.title = 100]).res = "Ok"
               /\ StakeOut(i, Ledger(i), inv).res = "TitleTooLong"


\* C10.  An invocation of Initialize, StakeKnowledge or RecordAttribution
\* that is signed, carries a valid payload and supplies, for the record to be
\* created, an address other than the derived one.
InitializeMismatch(inv) ==
    inv.signed /\ inv.protocol_account # FindProtocolAddress

StakeMismatch(inv) ==
    /\ inv.signed
    /\ inv.title <= 100
    /\ inv.category <= 50
    /\ inv.knowledge_account # StakeTarget(inv)

AttributionMismatch(inv) ==
    /\ inv.signed
    /\ inv.relevance_score <= 100
    /\ inv.attribution_account # AttributionTarget(inv)

InvalidAddress(res) == res \in {"InvalidPda", "ConstraintSeeds"}

\* C10 (as claimed): such an invocation returns the address-mismatch error
\* having read, created and written no record.
FailsClosedUnread(out) ==
    /\ InvalidAddress(out.res)
    /\ out.reads = {}
    /\ out.created = {}
    /\ out.written = {}

FailsClosed(i, led, out, repaired) ==
    /\ out.res # "Ok"
    /\ out.created = {}
    /\ out.written = {}
    /\ AtomicCommit(led, out) = led
    /\ i = "N" => out.res = "InvalidPda" /\ out.reads = {}
    /\ (i = "A" /\ repaired.res = "Ok") => out.res = "ConstraintSeeds"

C11_InitializeAtMostOnce ==
    \A i \in Impls :
        \A inv \in InitializeInvocations :
            LET led == Ledger(i)
                out == InitializeOut(i, led, inv)
                after == AtomicCommit(led, out)
            IN  /\ out.res = "Ok"
                   => /\ ~HasRegistry(led)
                      /\ inv.protocol_account = ProtocolPda
                      /\ HasRegistry(after)
                      /\ after[ProtocolPda].authority = inv.signer
                /\ HasRegistry(led)
                   => /\ out.res # "Ok"
                      /\ after = led

\* a registry created by wallet 1 that has counted an entry and an
\* attribution, on which wallet 2 submits a well-formed Initialize
C11_Witness ==
    /\ HasRegistry(ledger)
    /\ ledger[ProtocolPda].authority = Wallet(1)
    /\ ledger[ProtocolPda].total_knowledge_entries = 1
    /\ ledger[ProtocolPda].total_attributions = 1
    /\ InitializeOut(impl, ledger, [signer |-> Wallet(2), signed |-> TRUE,
                                    protocol_account |-> ProtocolPda]).res
           = "AccountAlreadyInUse"

\* C12: of two StakeKnowledge invocations for the same address, or two
\* RecordAttribution invocations for the same address, that would each
\* succeed in the current state, whichever is applied first succeeds and the
\* other, applied next, fails with the host's address-already-in-use error
\* and changes nothing: the record is the first one's.
C12_RacingCreationsExclusive ==
    \A i \in Impls :
        LET led == Ledger(i) IN
        /\ \A first \in StakeInvocations :
               StakeOut(i, led, first).res = "Ok"
               => \A second \in StakeInvocations :
                      (/\ second.knowledge_account = first.knowledge_account
                       /\ StakeOut(i, led, second).res = "Ok")
                      => LET after == AtomicCommit(led, StakeOut(i, led, first))
                             out == StakeOut(i, after, second)
                         IN  /\ after[first.knowledge_account].title = first.title
                             /\ out.res = "AccountAlreadyInUse"
                             /\ AtomicCommit(after, out) = after
        /\ \A first \in AttributionInvocations :
               AttributionOut(i, led, first).res = "Ok"
               => \A second \in AttributionInvocations :
                      (/\ second.attribution_account = first.attribution_account
                       /\ AttributionOut(i, led, second).res = "Ok")
                      => LET after == AtomicCommit(led, AttributionOut(i, led, first))
                             out == AttributionOut(i, after, second)
                         IN  /\ after[first.attribution_account].relevance_score
                                    = first.relevance_score
                             /\ out.res = "AccountAlreadyInUse"
                             /\ AtomicCommit(after, out) = after

\* a state in which two stakes of the same (staker, content_hash) with
\* different titles, and two attributions of the same (query_hash, entry)
\* with different scores, would each succeed
C12_Witness ==
    /\ \E a \in StakeInvocations, b \in StakeInvocations :
           /\ a.knowledge_account = b.knowledge_account
           /\ a.title # b.title
           /\ StakeOut(impl, ledger, a).res = "Ok"
           /\ StakeOut(impl, ledger, b).res = "Ok"
    /\ \E a \in AttributionInvocations, b \in AttributionInvocations :
           /\ a.attribution_account = b.attribution_account
           /\ a.relevance_score # b.relevance_score
           /\ AttributionOut(impl, ledger, a).res = "Ok"
           /\ AttributionOut(impl, ledger, b).res = "Ok"


\* C13.  Error names of the two implementations that denote the same
\* condition are identified.
ErrorKind(res) ==
    CASE res \in {"MissingRequiredSignature", "AccountNotSigner"} -> "MissingSignature"
      [] res \in {"InvalidPda", "ConstraintSeeds"} -> "InvalidAddress"
      [] res \in {"BorshIoError", "AccountNotInitialized",
                  "AccountDiscriminatorMismatch"} -> "InvalidAccountData"
      [] OTHER -> res

\* the record fields an account holds, whatever its buffer size
Fields(acct) ==
    CASE acct.kind = "protocol" ->
             [kind |-> "protocol", authority |-> acct.authority,
              total_knowledge_entries |-> acct.total_knowledge_entries,
              total_attributions |-> acct.total_attributions,
              reward_per_attribution |-> acct.reward_per_attribution]
      [] acct.kind = "knowledge" ->
             [kind |-> "knowledge", staker |-> acct.staker,
              content_hash |-> acct.content_hash, title |-> acct.title,
              category |-> acct.category, created_at |-> acct.created_at,
              total_attributions |-> acct.total_attributions,
              pending_rewards |-> acct.pending_rewards,
              is_active |-> acct.is_active]
      [] acct.kind = "attribution" ->
             [kind |-> "attribution", knowledge_entry |-> acct.knowledge_entry,
              query_hash |-> acct.query_hash,
              relevance_score |-> acct.relevance_score,
              timestamp |-> acct.timestamp, reward_claimed |-> acct.reward_claimed]
      [] OTHER -> [kind |-> acct.kind]

FieldsOf(led) == [a \in DOMAIN led |-> Fields(led[a])]

\* the low-level ledger holding the records of a framework-assisted ledger,
\* each as the low-level implementation stores it
NativeTwin(led) ==
    [a \in DOMAIN led |->
        LET acct == led[a] IN
        CASE acct.kind = "protocol" ->
                 ProtocolRecord(acct.authority, acct.total_knowledge_entries,
                                acct.total_attributions,
                                acct.reward_per_attribution, TRUE)
          [] acct.kind = "knowledge" ->
                 [KnowledgeRecord(acct.staker, acct.content_hash, acct.title,
                                  acct.category, acct.created_at, TRUE)
                     EXCEPT !.total_attributions = acct.total_attributions,
                            !.pending_rewards = acct.pending_rewards,
                            !.is_active = acct.is_active]
          [] acct.kind = "attribution" ->
                 [AttributionRecord(acct.knowledge_entry, acct.query_hash,
                                    acct.relevance_score, acct.timestamp)
                     EXCEPT !.reward_claimed = acct.reward_claimed]
          [] OTHER -> acct]

SameOutcome(led, outA, outN) ==
    /\ ErrorKind(outA.res) = ErrorKind(outN.res)
    /\ FieldsOf(AtomicCommit(led, outA))
           = FieldsOf(AtomicCommit(NativeTwin(led), outN))

\* C13 (as claimed): from every state the framework-assisted implementation
\* reaches, each invocation gives the same outcome (success, or the same kind
\* of error) and the same resulting record fields when the low-level
\* implementation is given it on the same records.
C13_ImplementationsAgree ==
    impl = "A" =>
        LET twin == NativeTwin(ledger) IN
        /\ \A inv \in InitializeInvocations :
               SameOutcome(ledger, initialize(ledger, inv),
                           process_initialize(twin, inv))
        /\ \A inv \in StakeInvocations :
               SameOutcome(ledger, stake_knowledge(ledger, inv),
                           process_stake_knowledge(twin, inv))
        /\ \A inv \in AttributionInvocations :
               SameOutcome(ledger, record_attribution(ledger, inv),
                           process_record_attribution(twin, inv))
        /\ \A inv \in ClaimInvocations :
               SameOutcome(ledger, claim_rewards(ledger, inv),
                           process_claim_rewards(twin, inv))

\* C14 (as claimed): every knowledge entry a StakeKnowledge has stored loads
\* back, unchanged, with the load RecordAttribution and ClaimRewards perform.
LoadEntry(i, led, e) ==
    IF i = "N"
    THEN LET k == KnowledgeTryFromSlice(AccountAt(led, e)) IN
         [ok |-> k.ok, rec |-> k.rec]
    ELSE LET k == AccountLoad(led, e, "knowledge") IN
         [ok |-> k.res = "Ok", rec |-> k.rec]

C14_StoredEntryLoadsBack ==
    \A i \in Impls :
        \A e \in EntriesOf(Ledger(i)) :
            /\ LoadEntry(i, Ledger(i), e).ok
            /\ LoadEntry(i, Ledger(i), e).rec = Ledger(i)[e]

\* C15 (as claimed): with the registry in place and supplied, a
\* StakeKnowledge that violates one or more of the four checks returns the
\* error of the first violated one in the order: signature, title length,
\* category length, derived address.
FirstViolated(inv) ==
    IF ~inv.signed THEN "MissingSignature"
    ELSE IF inv.title > 100 THEN "TitleTooLong"
    ELSE IF inv.category > 50 THEN "CategoryTooLong"
    ELSE IF inv.knowledge_account # StakeTarget(inv) THEN "InvalidAddress"
    ELSE "None"

C15_EarliestViolatedCheckReported ==
    \A i \in Impls :
        \A inv \in StakeInvocations :
            (/\ HasRegistry(Ledger(i))
             /\ inv.protocol_account = ProtocolPda
             /\ FirstViolated(inv) # "None")
            => ErrorKind(StakeOut(i, Ledger(i), inv).res) = FirstViolated(inv)

\* C16 (as claimed): a StakeKnowledge or RecordAttribution that carries, in
\* the registry position, an account other than the one at the address
\* derived from the registry tag fails and changes nothing: no counter is
\* incremented anywhere.
C16_OnlyDerivedRegistryAccepted ==
    \A i \in Impls :
        LET led == Ledger(i) IN
        /\ \A inv \in StakeInvocations :
               inv.protocol_account # ProtocolPda
               => /\ StakeOut(i, led, inv).res # "Ok"
                  /\ AtomicCommit(led, StakeOut(i, led, inv)) = led
        /\ \A inv \in AttributionInvocations :
               inv.protocol_account # ProtocolPda
               => /\ AttributionOut(i, led, inv).res # "Ok"
                  /\ AtomicCommit(led, AttributionOut(i, led, inv)) = led


\* C17 (as claimed): for every existing entry of a ledger that has its
\* registry, and every query_hash not yet attributed to it, a RecordAttribution
\* with a score in [1,100] succeeds and leaves pending_rewards above 0, and a
\* ClaimRewards by the staker then succeeds and leaves it at 0.
FreshAttribution(e, q, r) ==
    [signer |-> Wallet(1), signed |-> TRUE, protocol_account |-> ProtocolPda,
     knowledge_account |-> e, attribution_account |-> FindAttributionAddress(q, e),
     query_hash |-> q, relevance_score |-> r, now |-> 2]

C17_AccrueThenClaimAlwaysPossible ==
    \A i \in Impls :
        LET led == Ledger(i) IN
        \A e \in EntriesOf(led), q \in Queries, r \in {1, 100} :
            (/\ HasRegistry(led)
             /\ AccountAt(led, FindAttributionAddress(q, e)).kind = "none")
            => LET out == AttributionOut(i, led, FreshAttribution(e, q, r))
                   after == AtomicCommit(led, out)
                   claim == ClaimOut(i, after, [signer |-> led[e].staker,
                                                signed |-> TRUE,
                                                knowledge_account |-> e])
               IN  /\ out.res = "Ok"
                   /\ PendingAt(after, e) > 0
                   /\ claim.res = "Ok"
                   /\ PendingAt(AtomicCommit(after, claim), e) = 0

\* C18: a ClaimRewards that returns Ok changes the ledger in exactly one
\* field, the target entry's pending_rewards, which becomes 0; every
\* attribution record still has reward_claimed = FALSE.
C18_ClaimChangesOnlyPending ==
    \A i \in Impls :
        \A inv \in ClaimInvocations :
            LET led == Ledger(i)
                k == inv.knowledge_account
                out == ClaimOut(i, led, inv)
                after == AtomicCommit(led, out)
            IN  out.res = "Ok"
                => /\ led[k].kind = "knowledge"
                   /\ after = [led EXCEPT ![k].pending_rewards = 0]
                   /\ after # led
                   /\ \A a \in AttributionsOf(after) : ~after[a].reward_claimed

\* an entry with two attributions whose staker has claimed 15,000,000: the
\* counts and the attribution records are as before the claim
C18_Witness ==
    \E e \in EntriesOf(ledger) :
        /\ claimed[e] = 15000000
        /\ ledger[e].pending_rewards = 0
        /\ ledger[e].total_attributions = 2
        /\ Cardinality(AttributionsTo(ledger, e)) = 2
        /\ HasRegistry(ledger)
        /\ ledger[ProtocolPda].total_attributions = 2
        /\ \A a \in AttributionsTo(ledger, e) : ~ledger[a].reward_claimed

\* C19: in every step, an existing knowledge entry keeps its staker,
\* content_hash, title, category and created_at, and every existing entry has
\* is_active = TRUE.
C19_EntryIdentityImmutable ==
    [][\A e \in KnowledgePdas :
           /\ ledger[e].kind = "knowledge"
              => /\ ledger'[e].kind = "knowledge"
                 /\ ledger'[e].staker = ledger[e].staker
                 /\ ledger'[e].content_hash = ledger[e].content_hash
                 /\ ledger'[e].title = ledger[e].title
                 /\ ledger'[e].category = ledger[e].category
                 /\ ledger'[e].created_at = ledger[e].created_at
           /\ ledger'[e].kind = "knowledge" => ledger'[e].is_active]_vars

\* an entry staked at time 1 that has since had an attribution recorded at
\* time 2 and a claim paid
C19_Witness ==
    \E e \in EntriesOf(ledger) :
        /\ ledger[e].created_at = 1
        /\ ledger[e].is_active
        /\ ledger[e].total_attributions = 1
        /\ claimed[e] > 0
        /\ \E a \in AttributionsTo(ledger, e) : ledger[a].timestamp = 2

\* C20 (as claimed): for every knowledge entry, pending_rewards plus the
\* amounts its successful claims have reported equals the sum of
\* floor(reward_per_attribution * relevance_score / 10) over the attribution
\* records that reference it.
C20_RewardsConserved ==
    \A i \in Impls :
        LET led == Ledger(i) IN
        \A e \in EntriesOf(led) :
            LET recs == AttributionsTo(led, e)
                share == [a \in recs |->
                             (RegistryRate(led) * led[a].relevance_score) \div 10]
            IN  led[e].pending_rewards + ClaimedOf(i)[e] = SumOver(recs, share)


\* C21 (as claimed): the registry's total_attributions equals the sum of
\* total_attributions over the knowledge entries, and each entry's
\* total_attributions equals the number of attribution records whose
\* knowledge_entry is that entry.
C21_AttributionCountsAgree ==
    \A i \in Impls :
        LET led == Ledger(i)
            counts == [e \in EntriesOf(led) |-> led[e].total_attributions]
        IN  /\ HasRegistry(led)
               => led[ProtocolPda].total_attributions
                      = SumOver(EntriesOf(led), counts)
            /\ \A e \in EntriesOf(led) :
                   led[e].total_attributions = Cardinality(AttributionsTo(led, e))

====
